---- MODULE Spec2Model ----
(***************************************************************************)
(* Panel order / visibility / drag state machine of src/app/page.tsx       *)
(* (component Home).  The React state is panelOrder, openPanels and        *)
(* activeId; every handler is one atomic action (React applies the state   *)
(* updaters of one event before the next event is dispatched).             *)
(***************************************************************************)
EXTENDS Integers, Sequences, FiniteSets, TLC

\* Most togglePanel calls that are counted at one time (the calls of every
\* panel since its last closePanel, added up).
MaxToggles == 3

\* type PanelType = 'map' | 'music' | 'chat'  (the ids of allPanels)
PanelType == {"map", "music", "chat"}

\* const allPanels: Panel[]  (the icon is an opaque reference and is left out)
allPanels ==
    << [id |-> "map", title |-> "Map"],
       [id |-> "music", title |-> "Music"],
       [id |-> "chat", title |-> "Chat"] >>

\* null, as in useState<PanelType | null>(null) and in event.over
Null == "null"

\* What splice(from, 1)[0] yields when nothing was removed.
Undefined == "undefined"

\* An identifier that is no PanelType.  event.active.id and event.over.id are
\* dnd-kit UniqueIdentifiers (string | number); `as PanelType` is a cast that
\* checks nothing at run time.
ForeignId == "settings"

UniqueIdentifier == PanelType \cup {ForeignId}

VARIABLES
    panelOrder,   \* useState<PanelType[]>            (line 112)
    openPanels,   \* useState<Set<PanelType>>         (line 113)
    activeId,     \* useState<PanelType | null>       (line 116)
    dragging,     \* the DndContext's own active draggable, Null when idle
    raised,       \* the error the last handler threw, "none" when it returned
    last,         \* the last event delivered: [op, id, over, again, quiet]
    toggles,      \* per panel: togglePanel calls since its last closePanel
    closedOnce,   \* per panel: has closePanel been called for it
    atStart,      \* panelOrder / openPanels when the drag in progress started
    posAtHide     \* per panel: its index in panelOrder when it was hidden, 0 = n/a

vars == << panelOrder, openPanels, activeId, dragging, raised, last,
           toggles, closedOnce, atStart, posAtHide >>

(***************************************************************************)
(* Pure helpers, computed as the JavaScript computes them (0-based).       *)
(***************************************************************************)

\* Array.prototype.indexOf: first index of x, -1 when absent.
indexOf(items, x) ==
    IF \E i \in 1..Len(items) : items[i] = x
    THEN (CHOOSE i \in 1..Len(items) :
             items[i] = x /\ \A j \in 1..(i - 1) : items[j] # x) - 1
    ELSE -1

\* How Array.prototype.splice normalises its start argument.
spliceStart(len, start) ==
    IF start < 0
    THEN (IF len + start < 0 THEN 0 ELSE len + start)
    ELSE (IF start > len THEN len ELSE start)

\* newArray.splice(from, 1)[0]: the removed element.
spliceRemoved(array, from) ==
    LET s == spliceStart(Len(array), from)
    IN  IF s < Len(array) THEN array[s + 1] ELSE Undefined

\* newArray after newArray.splice(from, 1).
spliceDelete(array, from) ==
    LET s == spliceStart(Len(array), from)
    IN  IF s < Len(array)
        THEN SubSeq(array, 1, s) \o SubSeq(array, s + 2, Len(array))
        ELSE array

\* newArray after newArray.splice(to, 0, x).
spliceInsert(array, to, x) ==
    LET s == spliceStart(Len(array), to)
    IN  SubSeq(array, 1, s) \o << x >> \o SubSeq(array, s + 1, Len(array))

\* Faulty variant: the moved element is inserted but never removed.
arrayMoveNoRemove(array, from, to) ==
    LET toArg == IF to < 0 THEN Len(array) + to ELSE to
    IN  spliceInsert(array, toArg, spliceRemoved(array, from))

\* Faulty variant: the two elements exchange their slots.
arrayMoveSwap(array, from, to) ==
    [i \in 1..Len(array) |->
        IF i = from + 1 THEN array[to + 1]
        ELSE IF i = to + 1 THEN array[from + 1]
        ELSE array[i]]

\* arrayMove of @dnd-kit/sortable:
\*   newArray.splice(to < 0 ? newArray.length + to : to, 0,
\*                   newArray.splice(from, 1)[0]);
\* the first argument is evaluated before the inner splice shortens newArray.
arrayMove(array, from, to) ==
    LET toArg == IF to < 0 THEN Len(array) + to ELSE to
    IN  spliceInsert(spliceDelete(array, from), toArg, spliceRemoved(array, from))

\* Faulty variant: the indices are taken in the visible strip (the items of the
\* SortableContext) and applied to the full panelOrder.
reorderByVisibleIndex(items, active, over) ==
    LET strip == SelectSeq(items, LAMBDA id : id \in openPanels)
    IN  arrayMove(items, indexOf(strip, active), indexOf(strip, over))

\* The updater handed to setPanelOrder in handleDragEnd.
reorder(items, active, over) ==
    LET oldIndex == indexOf(items, active)
        newIndex == indexOf(items, over)
    IN  arrayMove(items, oldIndex, newIndex)

\* Faulty variant: the branch that deletes an open panel is lost.
toggleSetOnlyAdds(prev, panelId) == prev \cup {panelId}

\* The updater handed to setOpenPanels in togglePanel.
toggleSet(prev, panelId) ==
    IF panelId \in prev THEN prev \ {panelId} ELSE prev \cup {panelId}

\* Faulty variant: close behaves as toggle and reopens a closed panel.
closeSetReopens(prev, panelId) ==
    IF panelId \in prev THEN prev \ {panelId} ELSE prev \cup {panelId}

\* The updater handed to setOpenPanels in closePanel.
closeSet(prev, panelId) == prev \ {panelId}

\* allPanels.find((p) => p.id === id)
findPanel(id) ==
    IF \E i \in 1..Len(allPanels) : allPanels[i].id = id
    THEN allPanels[CHOOSE i \in 1..Len(allPanels) :
             allPanels[i].id = id /\ \A j \in 1..(i - 1) : allPanels[j].id # id]
    ELSE Undefined

\* Faulty variant: the filter on openPanels is dropped.
visiblePanelsUnfiltered(order, open) ==
    [i \in 1..Len(order) |-> findPanel(order[i])]

\* panelOrder.filter((id) => openPanels.has(id)).map((id) => allPanels.find(...))
visiblePanelsOf(order, open) ==
    LET kept == SelectSeq(order, LAMBDA id : id \in open)
    IN  [i \in 1..Len(kept) |-> findPanel(kept[i])]

visiblePanels == visiblePanelsOf(panelOrder, openPanels)

\* visiblePanels.length > 0 ? <DndContext ...> : placeholder
dndMounted(open) == Len(visiblePanelsOf(panelOrder, open)) > 0

\* Faulty variant: the placeholder is also shown for a single visible panel.
panelStripPlaceholderBelowTwo(order, open) ==
    LET shown == visiblePanelsOf(order, open)
    IN  IF Len(shown) > 1
        THEN [placeholder |-> FALSE,
              surfaces |-> [i \in 1..Len(shown) |-> shown[i].id]]
        ELSE [placeholder |-> TRUE, surfaces |-> << >>]

\* The panel strip of the render: one SortablePanel per entry of visiblePanels
\* (keyed by panel.id), or the placeholder paragraph.
panelStripOf(order, open) ==
    LET shown == visiblePanelsOf(order, open)
    IN  IF Len(shown) > 0
        THEN [placeholder |-> FALSE,
              surfaces |-> [i \in 1..Len(shown) |-> shown[i].id]]
        ELSE [placeholder |-> TRUE, surfaces |-> << >>]

panelStrip == panelStripOf(panelOrder, openPanels)

\* History of the drag in progress: quiet = no toggle/close since it started;
\* stale = the last panel that was visible when the DndContext of the drag was
\* replaced by the placeholder, Null while that DndContext is still rendered.
NoDrag == [order |-> << >>, open |-> {}, quiet |-> FALSE, stale |-> Null]

\* Record of a delivered event.  again: it repeats the event before it (same
\* handler, same panel); quiet: the drag it ends saw no toggle/close.
Event(op, id, over, again, quiet) ==
    [op |-> op, id |-> id, over |-> over, again |-> again, quiet |-> quiet]

(***************************************************************************)
(* State after construction.                                               *)
(***************************************************************************)
Init ==
    /\ panelOrder = << "map", "music", "chat" >>
    /\ openPanels = {"map", "music", "chat"}
    /\ activeId = Null
    /\ dragging = Null
    /\ raised = "none"
    /\ last = Event("init", Null, Null, FALSE, FALSE)
    /\ toggles = [p \in UniqueIdentifier |-> 0]
    /\ closedOnce = [p \in UniqueIdentifier |-> FALSE]
    /\ atStart = NoDrag
    /\ posAtHide = [p \in UniqueIdentifier |-> 0]

(***************************************************************************)
(* History bookkeeping shared by the handlers (not program state).         *)
(***************************************************************************)

\* The DndContext is rendered only while visiblePanels is non-empty.  Whether
\* the drag it was tracking outlives it is decided inside @dnd-kit/core (the
\* sensor's listeners sit on the document, the callbacks are props of the
\* DndContext): both outcomes are kept.
draggingAfter(open) ==
    IF dndMounted(open) THEN {dragging} ELSE {dragging, Null}

\* d: the drag that is left after the change; panelId: the panel it hid or showed.
startAfterVisibilityChange(d, open, panelId) ==
    IF d = Null
    THEN NoDrag
    ELSE [order |-> atStart.order, open |-> {}, quiet |-> FALSE,
          stale |-> IF atStart.stale # Null THEN atStart.stale
                    ELSE IF dndMounted(open) THEN Null
                    ELSE panelId]

\* The togglePanel calls counted so far.
RECURSIVE sumOver(_, _)
sumOver(f, S) ==
    IF S = {} THEN 0
    ELSE LET x == CHOOSE y \in S : TRUE
         IN  f[x] + sumOver(f, S \ {x})

togglesCounted == sumOver(toggles, DOMAIN toggles)

sameAsLast(op, panelId) == last.op = op /\ last.id = panelId

posAfterHide(panelId) ==
    IF panelId \in openPanels
    THEN [posAtHide EXCEPT ![panelId] = indexOf(panelOrder, panelId) + 1]
    ELSE posAtHide

(***************************************************************************)
(* Handlers.                                                               *)
(***************************************************************************)

\* Faulty variant: a panel that is reopened is moved to the end of panelOrder.
togglePanelReopensLast(panelId) ==
    /\ togglesCounted < MaxToggles
    /\ openPanels' = toggleSet(openPanels, panelId)
    /\ panelOrder' = IF panelId \in openPanels
                     THEN panelOrder
                     ELSE arrayMove(panelOrder, indexOf(panelOrder, panelId),
                                    Len(panelOrder) - 1)
    /\ raised' = "none"
    /\ dragging' \in draggingAfter(openPanels')
    /\ atStart' = startAfterVisibilityChange(dragging', openPanels', panelId)
    /\ last' = Event("toggle", panelId, Null, sameAsLast("toggle", panelId), FALSE)
    /\ toggles' = [toggles EXCEPT ![panelId] = @ + 1]
    /\ posAtHide' = posAfterHide(panelId)
    /\ UNCHANGED << activeId, closedOnce >>

\* const togglePanel = (panelId) => setOpenPanels(prev => ...)
togglePanel(panelId) ==
    /\ togglesCounted < MaxToggles
    /\ openPanels' = toggleSet(openPanels, panelId)
    /\ raised' = "none"
    /\ dragging' \in draggingAfter(openPanels')
    /\ atStart' = startAfterVisibilityChange(dragging', openPanels', panelId)
    /\ last' = Event("toggle", panelId, Null, sameAsLast("toggle", panelId), FALSE)
    /\ toggles' = [toggles EXCEPT ![panelId] = @ + 1]
    /\ posAtHide' = posAfterHide(panelId)
    /\ UNCHANGED << panelOrder, activeId, closedOnce >>

\* Faulty variant: closing the panel that is being dragged also clears activeId.
closePanelClearsActive(panelId) ==
    /\ openPanels' = closeSet(openPanels, panelId)
    /\ activeId' = IF activeId = panelId THEN Null ELSE activeId
    /\ raised' = "none"
    /\ dragging' \in draggingAfter(openPanels')
    /\ atStart' = startAfterVisibilityChange(dragging', openPanels', panelId)
    /\ last' = Event("close", panelId, Null, sameAsLast("close", panelId), FALSE)
    /\ toggles' = [toggles EXCEPT ![panelId] = 0]
    /\ closedOnce' = [closedOnce EXCEPT ![panelId] = TRUE]
    /\ posAtHide' = posAfterHide(panelId)
    /\ UNCHANGED << panelOrder >>

\* const closePanel = (panelId) => setOpenPanels(prev => ...)
closePanel(panelId) ==
    /\ openPanels' = closeSet(openPanels, panelId)
    /\ raised' = "none"
    /\ dragging' \in draggingAfter(openPanels')
    /\ atStart' = startAfterVisibilityChange(dragging', openPanels', panelId)
    /\ last' = Event("close", panelId, Null, sameAsLast("close", panelId), FALSE)
    /\ toggles' = [toggles EXCEPT ![panelId] = 0]
    /\ closedOnce' = [closedOnce EXCEPT ![panelId] = TRUE]
    /\ posAtHide' = posAfterHide(panelId)
    /\ UNCHANGED << panelOrder, activeId >>

\* const handleDragStart = (event) => setActiveId(event.active.id)
handleDragStart(id) ==
    /\ activeId' = id
    /\ raised' = "none"
    /\ dragging' = id
    /\ atStart' = [order |-> panelOrder, open |-> openPanels, quiet |-> TRUE,
                 stale |-> Null]
    /\ last' = Event("dragStart", id, Null, FALSE, FALSE)
    /\ UNCHANGED << panelOrder, openPanels, toggles, closedOnce, posAtHide >>

\* Faulty variant: activeId is cleared only on the branch that reorders.
handleDragEndClearsOnDrop(active, over) ==
    /\ IF over # Null /\ active # over
       THEN /\ activeId' = Null
            /\ panelOrder' = reorder(panelOrder, active, over)
            /\ posAtHide' = [p \in UniqueIdentifier |-> 0]
       ELSE UNCHANGED << activeId, panelOrder, posAtHide >>
    /\ raised' = "none"
    /\ dragging' = Null
    /\ atStart' = NoDrag
    /\ last' = Event("dragEnd", active, over, FALSE, atStart.quiet)
    /\ UNCHANGED << openPanels, toggles, closedOnce >>

\* const handleDragEnd = (event) => { setActiveId(null); if (...) setPanelOrder(...) }
handleDragEnd(active, over) ==
    /\ activeId' = Null
    /\ IF over # Null /\ active # over
       THEN /\ panelOrder' = reorder(panelOrder, active, over)
            /\ posAtHide' = [p \in UniqueIdentifier |-> 0]
       ELSE UNCHANGED << panelOrder, posAtHide >>
    /\ raised' = "none"
    /\ dragging' = Null
    /\ atStart' = NoDrag
    /\ last' = Event("dragEnd", active, over, FALSE, atStart.quiet)
    /\ UNCHANGED << openPanels, toggles, closedOnce >>

\* Faulty variant: cancel is treated as a drop on the first panel of the strip.
handleDragCancelDropsOnFirst ==
    /\ activeId' = Null
    /\ panelOrder' = IF dragging # panelOrder[1]
                     THEN reorder(panelOrder, dragging, panelOrder[1])
                     ELSE panelOrder
    /\ raised' = "none"
    /\ dragging' = Null
    /\ atStart' = NoDrag
    /\ last' = Event("dragCancel", dragging, Null, FALSE, atStart.quiet)
    /\ UNCHANGED << openPanels, toggles, closedOnce, posAtHide >>

\* const handleDragCancel = () => setActiveId(null)
handleDragCancel ==
    /\ activeId' = Null
    /\ raised' = "none"
    /\ dragging' = Null
    /\ atStart' = NoDrag
    /\ last' = Event("dragCancel", dragging, Null, FALSE, atStart.quiet)
    /\ UNCHANGED << panelOrder, openPanels, toggles, closedOnce, posAtHide >>

(***************************************************************************)
(* Events the rendered tree can deliver.                                   *)
(***************************************************************************)

\* A sidebar button exists for every entry of panelOrder (lines 191-211).
Toggle == \E panelId \in PanelType :
    /\ indexOf(panelOrder, panelId) >= 0
    /\ togglePanel(panelId)

\* A close button exists on every visible panel (line 232) and on the drag
\* overlay's copy of the active panel (lines 238-244).
Close == \E panelId \in PanelType :
    /\ \/ panelId \in openPanels
       \/ dndMounted(openPanels) /\ activeId = panelId
    /\ closePanel(panelId)

\* Faulty variant: drag handles exist for every entry of panelOrder.
DragStartAnyPanel == \E id \in PanelType :
    /\ dndMounted(openPanels)
    /\ indexOf(panelOrder, id) >= 0
    /\ dragging = Null
    /\ handleDragStart(id)

\* Only a visible panel has a drag handle; one drag at a time.
DragStart == \E id \in PanelType :
    /\ dndMounted(openPanels)
    /\ id \in openPanels
    /\ dragging = Null
    /\ handleDragStart(id)

\* The panels a drag can end over: the visible ones, or, for a drag whose
\* DndContext was replaced, the one that DndContext showed last.
hoverTargets ==
    IF atStart.stale # Null THEN {atStart.stale} ELSE openPanels

\* The drag in progress ends over one of those panels or over nothing.
DragEnd == \E over \in PanelType \cup {Null} :
    /\ dragging # Null
    /\ over \in hoverTargets \cup {Null}
    /\ handleDragEnd(dragging, over)

DragCancel ==
    /\ dragging # Null
    /\ handleDragCancel

Next == Toggle \/ Close \/ DragStart \/ DragEnd \/ DragCancel

Spec == Init /\ [][Next]_vars

\* handleDragEnd called with an arbitrary event: any identifiers, any state.
DragEndUnchecked ==
    \E active \in UniqueIdentifier, over \in UniqueIdentifier \cup {Null} :
        handleDragEnd(active, over)

\* togglePanel called with an arbitrary identifier (PanelType is erased at run
\* time).
ToggleUnchecked == \E panelId \in UniqueIdentifier : togglePanel(panelId)

NextToggleUnchecked == ToggleUnchecked \/ Close

SpecToggleUnchecked == Init /\ [][NextToggleUnchecked]_vars

NextUnchecked == DragStart \/ DragEndUnchecked \/ DragCancel

SpecUnchecked == Init /\ [][NextUnchecked]_vars

(***************************************************************************)
(* Helpers of the properties.                                              *)
(***************************************************************************)

Range(seq) == {seq[i] : i \in 1..Len(seq)}

NoDuplicates(seq) == \A i, j \in 1..Len(seq) : seq[i] = seq[j] => i = j

\* seq with every occurrence of x left out.
Without(seq, x) == SelectSeq(seq, LAMBDA e : e # x)

\* 1-based position of x in seq (x occurs in seq).
PositionOf(seq, x) == CHOOSE i \in 1..Len(seq) : seq[i] = x

\* The identities of the visible panels, in display sequence.
visibleIds == [i \in 1..Len(visiblePanels) |-> visiblePanels[i].id]

\* The last event was a drop on another panel.
Dropped(e) == e.op = "dragEnd" /\ e.over # Null /\ e.over # e.id

\* Order with from taken out and put back at the index to has in order.
MoveTo(order, from, to) ==
    LET rest == Without(order, from)
        pos == PositionOf(order, to)
    IN  SubSeq(rest, 1, pos - 1) \o << from >> \o SubSeq(rest, pos, Len(rest))

(***************************************************************************)
(* Properties.                                                             *)
(***************************************************************************)

\* C1: in every reachable state Order is a permutation of the Registry's
\* identity set {map, music, chat}: length 3, no duplicates, no omissions, no
\* foreign identities.
OrderIsPermutation ==
    /\ Len(panelOrder) = Cardinality(PanelType)
    /\ Range(panelOrder) = PanelType
    /\ NoDuplicates(panelOrder)

\* C1 witness: a drop has rearranged Order.
OrderRearranged ==
    /\ Dropped(last)
    /\ panelOrder = << "chat", "map", "music" >>

\* C2: a drop of fromId on toId (both in Order, different) puts fromId at the
\* index toId had before and keeps the relative sequence of all the others;
\* [map, music, chat] with reorder(map, chat) becomes [music, chat, map]; a
\* drop of a panel on itself leaves Order unchanged.
ReorderMovesToTarget ==
    [][ /\ Dropped(last') =>
            /\ panelOrder'[PositionOf(panelOrder, last'.over)] = last'.id
            /\ Without(panelOrder', last'.id) = Without(panelOrder, last'.id)
        /\ ( /\ Dropped(last')
             /\ panelOrder = << "map", "music", "chat" >>
             /\ last'.id = "map"
             /\ last'.over = "chat" ) =>
            panelOrder' = << "music", "chat", "map" >>
        /\ (last'.op = "dragEnd" /\ last'.over = last'.id) =>
            panelOrder' = panelOrder
      ]_vars

\* C2 witness: map was dropped on chat, two slots away, and now follows it.
MovedAcrossTwoSlots ==
    /\ Dropped(last)
    /\ last.id = "map"
    /\ last.over = "chat"
    /\ panelOrder = << "music", "chat", "map" >>

\* C3: visiblePanels holds exactly the identities in Visibility, each once,
\* in the sequence Order gives them, and every entry is that identity's
\* Registry definition; Order [map, music, chat] with Visibility {map, chat}
\* yields [map, chat].
VisibleIsOrderRestricted ==
    /\ Range(visibleIds) = openPanels
    /\ NoDuplicates(visibleIds)
    /\ \A i, j \in 1..Len(visibleIds) :
          i < j => indexOf(panelOrder, visibleIds[i]) < indexOf(panelOrder, visibleIds[j])
    /\ \A i \in 1..Len(visiblePanels) : visiblePanels[i] \in Range(allPanels)
    /\ (panelOrder = << "map", "music", "chat" >> /\ openPanels = {"map", "chat"}) =>
          visibleIds = << "map", "chat" >>

\* C3 witness: music was closed on the initial Order and the strip shows
\* map and chat.
MusicClosedStripShown ==
    /\ last.op = "close"
    /\ last.id = "music"
    /\ panelOrder = << "map", "music", "chat" >>
    /\ openPanels = {"map", "chat"}
    /\ visibleIds = << "map", "chat" >>

\* C4: toggle(id) and close(id) leave Order unchanged, a drag-end leaves
\* Visibility unchanged, and a panel that is reopened with no reorder since it
\* was hidden sits at the index in Order it had when it was hidden.
VisibilityOrderOrthogonal ==
    [][ /\ last'.op \in {"toggle", "close"} => panelOrder' = panelOrder
        /\ last'.op = "dragEnd" => openPanels' = openPanels
        /\ ( /\ last'.op = "toggle"
             /\ last'.id \in openPanels'
             /\ posAtHide'[last'.id] # 0 ) =>
            indexOf(panelOrder', last'.id) + 1 = posAtHide'[last'.id]
      ]_vars

\* C4 witness: map was moved to the last slot, hidden there, and has just
\* been reopened in a rearranged Order.
ReopenedWhereHidden ==
    /\ last.op = "toggle"
    /\ last.id = "map"
    /\ "map" \in openPanels
    /\ posAtHide["map"] = Len(panelOrder)
    /\ panelOrder[Len(panelOrder)] = "map"

\* C5: a panel is open exactly when the number of toggle(id) calls since the
\* last close(id) is odd, or, before any close(id), when the number of
\* toggle(id) calls is even; toggle(id) changes no other panel's visibility.
ToggleParity ==
    /\ [](\A id \in PanelType :
            (id \in openPanels) <=>
                (IF closedOnce[id] THEN toggles[id] % 2 = 1 ELSE toggles[id] % 2 = 0))
    /\ [][ last'.op = "toggle" =>
             \A other \in PanelType \ {last'.id} :
                 (other \in openPanels') <=> (other \in openPanels)
         ]_vars

\* C5 witness: map is open after one toggle since its close, music is open
\* after two toggles and no close.
OpenByParity ==
    /\ last.op = "toggle"
    /\ closedOnce["map"] /\ toggles["map"] = 1 /\ "map" \in openPanels
    /\ ~closedOnce["music"] /\ toggles["music"] = 2 /\ "music" \in openPanels

\* C6: after close(id) the panel is not in Visibility and every other
\* panel's membership is as before; no error is raised; a close(id) that
\* directly follows a close(id) leaves Visibility unchanged.
CloseIdempotent ==
    [][ last'.op = "close" =>
            /\ last'.id \notin openPanels'
            /\ \A other \in PanelType \ {last'.id} :
                   (other \in openPanels') <=> (other \in openPanels)
            /\ raised' = "none"
            /\ last'.again => openPanels' = openPanels
      ]_vars

\* C6 witness: the same panel was closed twice in a row.
ClosedTwice ==
    /\ last.op = "close"
    /\ last.again
    /\ last.id \notin openPanels
    /\ raised = "none"

\* C7: after onDragEnd(active, over), Order is Order with active moved to
\* over's index if over is present and differs from active, and unchanged if
\* over is none or equals active; no error is raised; in all three cases
\* ActiveDrag is none and Visibility is unchanged.
DragEndContract ==
    [][ last'.op = "dragEnd" =>
            /\ Dropped(last') =>
                   panelOrder' = MoveTo(panelOrder, last'.id, last'.over)
            /\ ~Dropped(last') => panelOrder' = panelOrder
            /\ raised' = "none"
            /\ activeId' = Null
            /\ openPanels' = openPanels
      ]_vars

\* C7 witness: a drag ended over no panel, in a rearranged Order, and
\* ActiveDrag is none.
EndedOverNothing ==
    /\ last.op = "dragEnd"
    /\ last.over = Null
    /\ panelOrder # << "map", "music", "chat" >>
    /\ activeId = Null
    /\ raised = "none"

\* C8: a drag-cancel leaves Order as it was at the drag-start, leaves
\* Visibility as it was (as at the drag-start when no toggle/close came in
\* between) and leaves ActiveDrag none; in every state of a drag in progress
\* Order is still the Order of its drag-start.
CancelAppliesNoReorder ==
    [][ /\ last'.op = "dragCancel" =>
               /\ panelOrder' = atStart.order
               /\ panelOrder' = panelOrder
               /\ openPanels' = openPanels
               /\ atStart.quiet => openPanels' = atStart.open
               /\ activeId' = Null
        /\ dragging' # Null => panelOrder' = atStart'.order
      ]_vars

\* C8 witness: drag-start(music) was directly followed by drag-cancel().
MusicDragCancelled ==
    /\ last.op = "dragCancel"
    /\ last.id = "music"
    /\ last.quiet
    /\ activeId = Null
    /\ dragging = Null

AbsentIdentityRejected ==
    [][ ( /\ Dropped(last')
          /\ \/ last'.id \notin Range(panelOrder)
             \/ last'.over \notin Range(panelOrder) ) =>
            /\ raised' = "InvalidIdentity"
            /\ panelOrder' = panelOrder
      ]_vars

\* C11: toggle(id) with an id that is not in the Registry fails with
\* InvalidIdentity and leaves Visibility unchanged, so Visibility is a subset of
\* the Registry's identities in every reachable state.
ForeignToggleRejected ==
    /\ (last.op = "toggle" /\ last.id \notin PanelType) => raised = "InvalidIdentity"
    /\ openPanels \subseteq PanelType

\* C12 as stated: a committed drop swaps the two panels: active takes over's
\* former position and over takes active's former position.
DropSwapsPanels ==
    [][ Dropped(last') =>
            /\ panelOrder'[PositionOf(panelOrder, last'.over)] = last'.id
            /\ panelOrder'[PositionOf(panelOrder, last'.id)] = last'.over
      ]_vars

\* C12 as amended: a committed drop puts active at over's former position and
\* shifts over by one slot toward active's former position; over lands on
\* active's former position (a swap) exactly when the two were adjacent.
DropMovesAndShifts ==
    [][ Dropped(last') =>
            LET pa == PositionOf(panelOrder, last'.id)
                po == PositionOf(panelOrder, last'.over)
            IN  /\ panelOrder'[po] = last'.id
                /\ panelOrder'[IF pa < po THEN po - 1 ELSE po + 1] = last'.over
                /\ (panelOrder'[pa] = last'.over) <=> (pa - po \in {-1, 1})
      ]_vars

\* C12 witness: chat was dropped on map, two slots to its left; map moved one
\* slot to the right instead of taking chat's former slot.
DroppedOnNonAdjacent ==
    /\ Dropped(last)
    /\ last.id = "chat"
    /\ last.over = "map"
    /\ panelOrder = << "chat", "map", "music" >>

StripReorderAgrees ==
    [][ ( /\ Dropped(last')
          /\ last'.id \in openPanels
          /\ last'.over \in openPanels ) =>
            visibleIds' = MoveTo(visibleIds, last'.id, last'.over)
      ]_vars

\* C15 witness: with music hidden between them, map was dropped on chat; the
\* strip shows chat before map.
DroppedAcrossHidden ==
    /\ Dropped(last)
    /\ last.id = "map"
    /\ last.over = "chat"
    /\ openPanels = {"map", "chat"}
    /\ panelOrder = << "music", "chat", "map" >>
    /\ visibleIds = << "chat", "map" >>

\* C16: the strip shows the placeholder exactly when visiblePanels is empty,
\* which is exactly when Visibility is empty; otherwise it shows one surface
\* per visible identity in Order's sequence; a toggle in a state that shows
\* the placeholder leads to a state that does not.
PlaceholderIffNothingVisible ==
    /\ [](/\ panelStrip.placeholder <=> Len(visiblePanels) = 0
          /\ panelStrip.placeholder <=> openPanels = {}
          /\ panelStrip.placeholder => panelStrip.surfaces = << >>
          /\ ~panelStrip.placeholder =>
                panelStrip.surfaces = SelectSeq(panelOrder, LAMBDA id : id \in openPanels))
    /\ [][ (panelStrip.placeholder /\ last'.op = "toggle") =>
               /\ ~panelStrip'.placeholder
               /\ panelStrip'.surfaces = << last'.id >>
         ]_vars

\* C16 witness: the last open panel was toggled off in a rearranged Order and
\* the placeholder is shown.
AllClosedPlaceholderShown ==
    /\ last.op = "toggle"
    /\ openPanels = {}
    /\ panelOrder # << "map", "music", "chat" >>
    /\ panelStrip.placeholder

====
